---- MODULE Spec2Model ----
(***************************************************************************)
(* Model of backend/app/arbitrage.py: ArbitrageService, the registry of    *)
(* bot tasks (start_bot / stop_bot), the bot loop (_run_bot and            *)
(* _scan_and_trade) and the per-user broadcast.                            *)
(*                                                                         *)
(* The service runs on one asyncio event loop.  A coroutine runs without   *)
(* interruption from one await to the next, so every action below is one   *)
(* such run: it starts where an awaited operation completes (or where a    *)
(* CancelledError is thrown into the await) and ends at the next await.    *)
(* A few runs are split at the program points "eval", "trade_check" and    *)
(* "next_coin"; while a loop stands at one of them nothing else may take a *)
(* step (see Running), so the split adds no interleaving.                  *)
(***************************************************************************)
EXTENDS Integers, Sequences, FiniteSets, TLC

\* ------------------------------------------------------------------ bounds
MaxTasks  == 3      \* asyncio tasks created by start_bot over a behaviour
MaxStops  == 2      \* stop_bot calls over a behaviour
MaxCycles == 2      \* scan cycles of one loop

TaskIds == 1..MaxTasks
StopIds == 1..MaxStops

\* ------------------------------------------------------------ input domains
\* key = (user.id, config.id)
Keys == {<<1, 1>>, <<1, 2>>}
Users == {1}

\* ccxt exchange classes that exist; any other name raises AttributeError
Supported == {"binance", "kraken", "okx"}

EK(name, enabled) == [exchange |-> name, is_enabled |-> enabled]

\* an absent value (Python None) is the empty sequence, a present one <<v>>
None == << >>
Some(v) == << v >>

\* slippage_tolerance is held in percent: a spread exceeds it when
\* (sell - buy) * 100 > slippage_tolerance * sell
Cfg(m, b, mts, tol) ==
    [mode |-> m, budget |-> b, max_trade_size |-> mts, slippage_tolerance |-> tol]

\* a ticker as fetch_ticker returns it; the outcome of a fetch_ticker call is
\* Some(ticker), or None for a raised exception
Ticker(a, l) == [ask |-> a, last |-> l]

\* ------------------------------------------------- _run_bot: client set-up
\* exchanges = [ek for ek in user.exchange_keys if ek.is_enabled]
EnabledKeysAll(eks) == eks
EnabledKeys(eks) == SelectSeq(eks, LAMBDA ek : ek.is_enabled)

\* the names under which a client is constructed, in order; a name that
\* getattr(ccxt, name) does not find is skipped, and a name that comes again
\* keeps its place in the dict clients
RECURSIVE BuildClients(_)
BuildClients(exchanges) ==
    IF exchanges = << >> THEN << >>
    ELSE LET ek == Head(exchanges)
             rest == BuildClients(Tail(exchanges))
         IN IF ek.exchange \in Supported
            THEN << ek.exchange >> \o SelectSeq(rest, LAMBDA name : name # ek.exchange)
            ELSE rest

\* ------------------------------------------ _scan_and_trade: the evaluation
\* price = ticker['ask'] if ticker['ask'] else ticker['last']
\* (a missing ask and an ask of 0 are both falsy)
Truthy(v) == v # None /\ v[1] # 0

PriceOf(ticker) == IF Truthy(ticker.ask) THEN ticker.ask ELSE ticker.last

Quote(name, price) == [exchange |-> name, price |-> price]

\* one pass of the loop "for i, ticker in enumerate(tickers)" from index i on,
\* best = [buy |-> best_buy, sell |-> best_sell]
RECURSIVE BestFrom(_, _, _, _)
BestFrom(tickers, exchange_names, i, best) ==
    IF i > Len(tickers) THEN best
    ELSE IF tickers[i] = None
         THEN BestFrom(tickers, exchange_names, i + 1, best)
    ELSE LET price == PriceOf(tickers[i][1]) IN
         IF price = None
         THEN BestFrom(tickers, exchange_names, i + 1, best)
         ELSE LET name == exchange_names[i]
                  p == price[1]
                  bb == IF best.buy = None \/ p < best.buy[1].price
                        THEN Some(Quote(name, p)) ELSE best.buy
                  bs == IF best.sell = None \/ p > best.sell[1].price
                        THEN Some(Quote(name, p)) ELSE best.sell
              IN BestFrom(tickers, exchange_names, i + 1, [buy |-> bb, sell |-> bs])

Reversed(q) == [i \in 1..Len(q) |-> q[Len(q) + 1 - i]]
BestTieLast(tickers, exchange_names) ==
    BestFrom(Reversed(tickers), Reversed(exchange_names), 1,
             [buy |-> None, sell |-> None])
BestSwapped(tickers, exchange_names) ==
    LET b == BestFrom(tickers, exchange_names, 1, [buy |-> None, sell |-> None])
    IN [buy |-> b.sell, sell |-> b.buy]
BestCompacted(tickers, exchange_names) ==
    BestFrom(SelectSeq(tickers, LAMBDA ticker : ticker # None), exchange_names, 1,
             [buy |-> None, sell |-> None])
Best(tickers, exchange_names) ==
    BestFrom(tickers, exchange_names, 1, [buy |-> None, sell |-> None])

\* if best_buy and best_sell and best_sell[1] > 0
HasOpportunityAnySell(best) == best.buy # None /\ best.sell # None
HasOpportunity(best) ==
    best.buy # None /\ best.sell # None /\ best.sell[1].price > 0

\* spread > config.slippage_tolerance, spread = (sell - buy) / sell, sell > 0
SpreadAtLeast(best, slippage_tolerance) ==
    (best.sell[1].price - best.buy[1].price) * 100
        >= slippage_tolerance * best.sell[1].price
SpreadExceeds(best, slippage_tolerance) ==
    (best.sell[1].price - best.buy[1].price) * 100
        > slippage_tolerance * best.sell[1].price

Min(a, b) == IF a <= b THEN a ELSE b

\* trade_size_usd = min(config.max_trade_size, config.budget)
TradeSizeNoBudget(config) == config.max_trade_size
TradeSize(config) == Min(config.max_trade_size, config.budget)

\* amount = trade_size_usd / best_buy[1] if best_buy[1] > 0 else 0,
\* kept as the fraction num / den
Amount(trade_size_usd, price_buy) ==
    IF price_buy > 0 THEN [num |-> trade_size_usd, den |-> price_buy]
    ELSE [num |-> 0, den |-> 1]

\* if config.mode == 'live': the orders are placed
IsLiveAnyMode(config) == TRUE
IsLive(config) == config.mode = "live"

\* if config.mode == 'live' and status == 'executed': config.budget -= trade_size_usd
BudgetAfterAnyMode(config, status, trade_size_usd) ==
    IF status = "executed" THEN config.budget - trade_size_usd ELSE config.budget
BudgetAfter(config, status, trade_size_usd) ==
    IF config.mode = "live" /\ status = "executed"
    THEN config.budget - trade_size_usd
    ELSE config.budget

\* -------------------------------------------------------------------- state
VARIABLES
    tasks,        \* self._tasks: key -> task id, 0 when the key is absent
    subscribers,  \* self._subscribers: user id -> set of websockets
    loop,         \* per asyncio task: the _run_bot coroutine and its locals
    waiters,      \* per task: the stop_bot calls suspended in "await task"
    stops,        \* per stop_bot call: where it stands and how it ended
    ret           \* the last start_bot call and what it did

vars == << tasks, subscribers, loop, waiters, stops, ret >>

\* program points of _run_bot at which the coroutine is suspended in an await
AwaitPcs == {"fetch", "send", "buy", "sell", "persist", "sleep", "close"}
\* program points inside one uninterrupted run
RunPcs == {"eval", "trade_check", "next_coin"}

NoBest == [buy |-> None, sell |-> None]
NoAmount == [num |-> 0, den |-> 1]

\* orders and records are the order calls issued and the rows written in the
\* current scan cycle; attempts counts the trades decided on (line 185),
\* persisted the rows written and spent adds up trade_size_usd over the trades
\* that reached line 224 with status executed
Unborn ==
    [ pc |-> "unborn", key |-> <<0, 0>>, exchange_keys |-> << >>,
      config |-> Cfg("sandbox", 0, 0, 0), budget0 |-> 0, coins |-> << >>,
      clients |-> << >>, must_cancel |-> FALSE, result |-> "none",
      failed |-> FALSE, cycle |-> 0,
      results |-> << >>, tickers |-> << >>, ci |-> 0, xi |-> 0,
      best |-> NoBest, trade_size_usd |-> 0, amount |-> NoAmount,
      status |-> "none", bkind |-> "none", queue |-> << >>, to_remove |-> {},
      close_i |-> 0, close_calls |-> << >>,
      orders |-> << >>, records |-> << >>,
      attempts |-> 0, persisted |-> 0, spent |-> 0 ]

NoStop == [state |-> "idle", key |-> <<0, 0>>, task |-> 0, exc |-> "none"]

Init ==
    /\ tasks = [k \in Keys |-> 0]
    /\ subscribers = [u \in Users |-> {}]
    /\ loop = [t \in TaskIds |-> Unborn]
    /\ waiters = [t \in TaskIds |-> << >>]
    /\ stops = [s \in StopIds |-> NoStop]
    /\ ret = [op |-> "none", key |-> <<0, 0>>, outcome |-> "none"]

\* some coroutine is in the middle of an uninterrupted run
Running == \E t \in TaskIds : loop[t].pc \in RunPcs

Done(t) == loop[t].pc = "done"
\* the task object exists and its coroutine has not terminated
Alive(t) == loop[t].pc \notin {"unborn", "done"}

\* ----------------------------------------------------------------- start_bot
\* the least task id not yet used
FreshTask == CHOOSE t \in TaskIds : loop[t].pc = "unborn" /\
                 \A u \in TaskIds : u < t => loop[u].pc # "unborn"

\* "if key in self._tasks" of start_bot
KeyInTasks(key) == tasks[key] # 0

StartBot(key, exchange_keys, config, coins) ==
    /\ ~Running
    /\ IF KeyInTasks(key)
       THEN /\ ret' = [op |-> "start_bot", key |-> key, outcome |-> "already_running"]
            /\ UNCHANGED << tasks, loop >>
       ELSE /\ \E t \in TaskIds : loop[t].pc = "unborn"
            /\ LET t == FreshTask IN
               /\ loop' = [loop EXCEPT ![t] =
                      [Unborn EXCEPT !.pc = "created", !.key = key,
                                     !.exchange_keys = exchange_keys,
                                     !.config = config, !.budget0 = config.budget,
                                     !.coins = coins]]
               /\ tasks' = [tasks EXCEPT ![key] = t]
            /\ ret' = [op |-> "start_bot", key |-> key, outcome |-> "spawned"]
    /\ UNCHANGED << subscribers, waiters, stops >>

\* ------------------------------------------------------------------ _run_bot
Zeros(n) == [i \in 1..n |-> 0]

\* the top of "while True": _scan_and_trade up to its first await
BeginCycle(r) ==
    [r EXCEPT !.cycle = r.cycle + 1, !.results = << >>, !.tickers = << >>,
              !.orders = << >>, !.records = << >>,
              !.ci = 1, !.xi = 1, !.pc = "fetch"]

\* the locals of _scan_and_trade and broadcast are gone once an exception has
\* left their frames
Unwound(r) ==
    [r EXCEPT !.results = << >>, !.tickers = << >>, !.ci = 0, !.xi = 0,
              !.best = NoBest, !.trade_size_usd = 0, !.amount = NoAmount,
              !.status = "none", !.bkind = "none", !.queue = << >>,
              !.to_remove = {}, !.orders = << >>, !.records = << >>]

\* the task has finished: of the coroutine nothing is left but the task's
\* result; the clients it built and the close() calls it made are kept as a
\* record of the run
Finished(r, result) ==
    [Unborn EXCEPT !.pc = "done", !.key = r.key, !.result = result,
                   !.clients = r.clients, !.close_calls = r.close_calls]

\* the finally clause of _run_bot up to its first await: close() is called on
\* the first client; failed says that an exception other than CancelledError
\* is passing through the clause
EnterCleanup(r, failed) ==
    [Unwound(r) EXCEPT !.pc = "close", !.failed = failed, !.close_i = 1,
                       !.close_calls[1] = r.close_calls[1] + 1]

\* the first run of the task: lines 99-124
FirstStep(t) ==
    /\ ~Running
    /\ loop[t].pc = "created"
    /\ ~loop[t].must_cancel
    /\ LET r == loop[t]
           exchanges == EnabledKeys(r.exchange_keys)
           clients == BuildClients(exchanges)
       IN loop' = [loop EXCEPT ![t] =
              IF exchanges = << >> \/ clients = << >>
              THEN Finished(r, "ok")
              ELSE BeginCycle([r EXCEPT !.clients = clients,
                                        !.close_calls = Zeros(Len(clients)),
                                        !.exchange_keys = << >>])]
    /\ UNCHANGED << tasks, subscribers, waiters, stops, ret >>

\* the coroutine after "ticker = await fut" has given outcome, a ticker or,
\* for an exception that "except Exception" caught, None: the ticker is
\* appended and the next future is awaited, or the evaluation begins
AfterFetchAbort(r, outcome) ==
    IF outcome = None THEN EnterCleanup(r, TRUE)
    ELSE LET tickers == Append(r.tickers, outcome) IN
         IF r.xi < Len(r.clients)
         THEN [r EXCEPT !.tickers = tickers, !.xi = r.xi + 1]
         ELSE IF r.ci < Len(r.coins)
         THEN [r EXCEPT !.results = Append(r.results, tickers),
                        !.tickers = << >>, !.ci = r.ci + 1, !.xi = 1]
         ELSE [r EXCEPT !.results = Append(r.results, tickers),
                        !.tickers = << >>, !.ci = 1, !.xi = 0, !.pc = "eval"]
AfterFetch(r, outcome) ==
    LET tickers == Append(r.tickers, outcome) IN
    IF r.xi < Len(r.clients)
    THEN [r EXCEPT !.tickers = tickers, !.xi = r.xi + 1]
    ELSE IF r.ci < Len(r.coins)
    THEN [r EXCEPT !.results = Append(r.results, tickers),
                   !.tickers = << >>, !.ci = r.ci + 1, !.xi = 1]
    ELSE [r EXCEPT !.results = Append(r.results, tickers),
                   !.tickers = << >>, !.ci = 1, !.xi = 0, !.pc = "eval"]

\* "ticker = await fut" returns or raises: lines 146-155
FetchDone(t, outcome) ==
    /\ ~Running
    /\ loop[t].pc = "fetch"
    /\ ~loop[t].must_cancel
    /\ loop' = [loop EXCEPT ![t] = AfterFetch(loop[t], outcome)]
    /\ UNCHANGED << tasks, subscribers, waiters, stops, ret >>

\* The quote requests of a cycle, as (coin index, client index).  Line 143
\* calls fetch_ticker for each of them, which creates a coroutine object and
\* runs none of its code: a request starts when "await fut" (line 150)
\* reaches it, and "await fut" returns when that request has completed.  The
\* requests started so far are those up to the one being awaited, the
\* completed ones those before it.
Requests(r) == (1..Len(r.coins)) \X (1..Len(r.clients))
Started(r) ==
    IF r.pc # "fetch" THEN {}
    ELSE { q \in Requests(r) : q[1] < r.ci \/ (q[1] = r.ci /\ q[2] <= r.xi) }
Completed(r) ==
    IF r.pc # "fetch" THEN {}
    ELSE { q \in Requests(r) : q[1] < r.ci \/ (q[1] = r.ci /\ q[2] < r.xi) }
InFlight(r) == Started(r) \ Completed(r)

\* list(self._subscribers[user_id]): the set in some iteration order
Orders(S) ==
    { q \in [1..Cardinality(S) -> S] : \A i, j \in 1..Cardinality(S) : i # j => q[i] # q[j] }

\* broadcast up to its first await; with nobody subscribed it returns at once
\* and the coroutine goes on at cont
StartBroadcastKeyError(r, kind, cont, q) ==
    IF q = << >>
    THEN EnterCleanup(r, TRUE)
    ELSE [r EXCEPT !.pc = "send", !.bkind = kind, !.queue = q, !.to_remove = {}]
StartBroadcast(r, kind, cont, q) ==
    IF q = << >>
    THEN [r EXCEPT !.pc = cont]
    ELSE [r EXCEPT !.pc = "send", !.bkind = kind, !.queue = q, !.to_remove = {}]

\* the evaluation of one coin, lines 158-183
Eval(t) ==
    /\ loop[t].pc = "eval"
    /\ LET r == loop[t]
           best == Best(r.results[r.ci], r.clients)
       IN IF HasOpportunity(best)
          THEN \E q \in Orders(subscribers[r.key[1]]) :
                   loop' = [loop EXCEPT ![t] =
                       StartBroadcast([r EXCEPT !.best = best], "ticker", "trade_check", q)]
          ELSE loop' = [loop EXCEPT ![t] = [r EXCEPT !.best = NoBest, !.pc = "next_coin"]]
    /\ UNCHANGED << tasks, subscribers, waiters, stops, ret >>

\* "for ws in to_remove: self._subscribers[user_id].discard(ws)": set.discard
\* removes the element if it is there and never raises
DiscardAll(S, to_remove) == {}
Discard(S, to_remove) == S \ to_remove
RemoveRaises(S, to_remove) == ~(to_remove \subseteq S)
DiscardRaises(S, to_remove) == FALSE

\* "await ws.send_json(message)" returns or raises: lines 68-74
SendDone(t, ok) ==
    /\ ~Running
    /\ loop[t].pc = "send"
    /\ ~loop[t].must_cancel
    /\ LET r == loop[t]
           ws == Head(r.queue)
           to_remove == IF ok THEN r.to_remove ELSE r.to_remove \cup {ws}
           cont == IF r.bkind = "ticker" THEN "trade_check" ELSE "next_coin"
       IN IF Len(r.queue) > 1
          THEN /\ loop' = [loop EXCEPT ![t] =
                      [r EXCEPT !.queue = Tail(r.queue), !.to_remove = to_remove]]
               /\ UNCHANGED subscribers
          ELSE /\ loop' = [loop EXCEPT ![t] =
                      IF DiscardRaises(subscribers[r.key[1]], to_remove)
                      THEN EnterCleanup(r, TRUE)
                      ELSE [r EXCEPT !.queue = << >>, !.to_remove = {},
                                     !.bkind = "none", !.pc = cont]]
               /\ subscribers' = [subscribers EXCEPT ![r.key[1]] =
                                     Discard(@, to_remove)]
    /\ UNCHANGED << tasks, waiters, stops, ret >>

Order(side, exchange, coin, amount) ==
    [side |-> side, exchange |-> exchange, coin |-> coin, amount |-> amount]

\* "if spread > config.slippage_tolerance" and the trade up to its first
\* await: lines 185-208
TradeCheck(t) ==
    /\ loop[t].pc = "trade_check"
    /\ LET r == loop[t]
           size == TradeSize(r.config)
           amount == Amount(size, r.best.buy[1].price)
           coin == r.coins[r.ci]
       IN loop' = [loop EXCEPT ![t] =
              IF ~SpreadExceeds(r.best, r.config.slippage_tolerance)
              THEN [r EXCEPT !.pc = "next_coin"]
              ELSE IF IsLive(r.config)
              THEN [r EXCEPT !.trade_size_usd = size, !.amount = amount,
                             !.status = "executed", !.attempts = r.attempts + 1,
                             !.orders = Append(r.orders,
                                 Order("buy", r.best.buy[1].exchange, coin, amount)),
                             !.pc = "buy"]
              ELSE [r EXCEPT !.trade_size_usd = size, !.amount = amount,
                             !.status = "executed", !.attempts = r.attempts + 1,
                             !.pc = "persist"]]
    /\ UNCHANGED << tasks, subscribers, waiters, stops, ret >>

\* the buy order has returned: the sell order is issued, line 202
BuyReturned(r) ==
    [r EXCEPT !.orders = Append(r.orders,
                  Order("sell", r.best.sell[1].exchange, r.coins[r.ci], r.amount)),
              !.pc = "sell"]

\* "except Exception as e" after an order call has raised, lines 203-208;
\* the order call that raised is the last one issued
OrderRaisedSellAnyway(r) ==
    IF r.pc = "buy" THEN BuyReturned([r EXCEPT !.status = "error"])
    ELSE [r EXCEPT !.status = "error", !.pc = "persist"]
OrderRaisedUncaught(r) == EnterCleanup(r, TRUE)
OrderRaised(r) == [r EXCEPT !.status = "error", !.pc = "persist"]

\* "await buy_client.create_market_buy_order" returns or raises
BuyDone(t, ok) ==
    /\ ~Running
    /\ loop[t].pc = "buy"
    /\ ~loop[t].must_cancel
    /\ loop' = [loop EXCEPT ![t] =
           IF ok THEN BuyReturned(loop[t]) ELSE OrderRaised(loop[t])]
    /\ UNCHANGED << tasks, subscribers, waiters, stops, ret >>

\* "await sell_client.create_market_sell_order" returns or raises
SellDone(t, ok) ==
    /\ ~Running
    /\ loop[t].pc = "sell"
    /\ ~loop[t].must_cancel
    /\ LET r == loop[t] IN
       loop' = [loop EXCEPT ![t] =
           IF ok THEN [r EXCEPT !.pc = "persist"] ELSE OrderRaised(r)]
    /\ UNCHANGED << tasks, subscribers, waiters, stops, ret >>

\* the row crud.create_trade_log writes
TradeRecord(r) ==
    [ coin |-> r.coins[r.ci],
      buy_exchange |-> r.best.buy[1].exchange,
      sell_exchange |-> r.best.sell[1].exchange,
      price_buy |-> r.best.buy[1].price,
      price_sell |-> r.best.sell[1].price,
      amount |-> r.amount, mode |-> r.config.mode, status |-> r.status,
      error_message |-> IF r.status = "error" THEN Some("str(e)") ELSE None,
      cycle |-> r.cycle ]

\* "await crud.create_trade_log" returns or raises; on return the budget
\* update and the trade broadcast follow: lines 208-238
PersistDoneUnlogged(t, ok) ==
    /\ ~Running
    /\ loop[t].pc = "persist"
    /\ ~loop[t].must_cancel
    /\ LET r == loop[t]
           logged == IF ok THEN [r EXCEPT !.records = Append(r.records, TradeRecord(r)),
                                          !.persisted = r.persisted + 1]
                     ELSE r
       IN \E q \in Orders(subscribers[r.key[1]]) :
              loop' = [loop EXCEPT ![t] =
                  StartBroadcast(
                      [logged EXCEPT !.spent = r.spent + (IF r.status = "executed"
                                                          THEN r.trade_size_usd ELSE 0),
                                     !.config.budget =
                                         BudgetAfter(r.config, r.status, r.trade_size_usd)],
                      "trade", "next_coin", q)]
    /\ UNCHANGED << tasks, subscribers, waiters, stops, ret >>
PersistDone(t, ok) ==
    /\ ~Running
    /\ loop[t].pc = "persist"
    /\ ~loop[t].must_cancel
    /\ LET r == loop[t] IN
       IF ok
       THEN \E q \in Orders(subscribers[r.key[1]]) :
                loop' = [loop EXCEPT ![t] =
                    StartBroadcast(
                        [r EXCEPT !.records = Append(r.records, TradeRecord(r)),
                                  !.persisted = r.persisted + 1,
                                  !.spent = r.spent + (IF r.status = "executed"
                                                       THEN r.trade_size_usd ELSE 0),
                                  !.config.budget =
                                      BudgetAfter(r.config, r.status, r.trade_size_usd)],
                        "trade", "next_coin", q)]
       ELSE loop' = [loop EXCEPT ![t] = EnterCleanup(r, TRUE)]
    /\ UNCHANGED << tasks, subscribers, waiters, stops, ret >>

\* the end of "for coin, tickers in results.items()" for one coin
NextCoin(t) ==
    /\ loop[t].pc = "next_coin"
    /\ LET r == loop[t] IN
       loop' = [loop EXCEPT ![t] =
           IF r.ci < Len(r.coins)
           THEN [r EXCEPT !.ci = r.ci + 1, !.pc = "eval"]
           ELSE [r EXCEPT !.ci = 0, !.best = NoBest, !.results = << >>,
                          !.trade_size_usd = 0, !.amount = NoAmount,
                          !.status = "none", !.pc = "sleep"]]
    /\ UNCHANGED << tasks, subscribers, waiters, stops, ret >>

\* "await asyncio.sleep(5)" returns
SleepDone(t) ==
    /\ ~Running
    /\ loop[t].pc = "sleep"
    /\ ~loop[t].must_cancel
    /\ loop[t].cycle < MaxCycles
    /\ loop' = [loop EXCEPT ![t] = BeginCycle(loop[t])]
    /\ UNCHANGED << tasks, subscribers, waiters, stops, ret >>

\* "await client.close()" returns: lines 130-131
CloseDone(t) ==
    /\ ~Running
    /\ loop[t].pc = "close"
    /\ ~loop[t].must_cancel
    /\ LET r == loop[t] IN
       loop' = [loop EXCEPT ![t] =
           IF r.close_i < Len(r.clients)
           THEN [r EXCEPT !.close_i = r.close_i + 1,
                          !.close_calls[r.close_i + 1] = r.close_calls[r.close_i + 1] + 1]
           ELSE Finished(r, IF r.failed THEN "error" ELSE "ok")]
    /\ UNCHANGED << tasks, subscribers, waiters, stops, ret >>

\* the task's next run after Task.cancel(): CancelledError is thrown into the
\* await the coroutine is suspended in.  Before the first run the task ends
\* without running; inside the try of _run_bot the except clause catches it
\* and the finally clause starts; inside the finally clause it propagates.
\* An interrupted create_trade_log may or may not have committed its row.
CancelDeliver(t, committed) ==
    /\ ~Running
    /\ loop[t].must_cancel
    /\ loop[t].pc \in AwaitPcs \cup {"created"}
    /\ committed => loop[t].pc = "persist"
    /\ LET r == [loop[t] EXCEPT !.must_cancel = FALSE] IN
       loop' = [loop EXCEPT ![t] =
           IF r.pc \in {"created", "close"}
           THEN Finished(r, "cancelled")
           ELSE EnterCleanup(
                    [r EXCEPT !.persisted = IF committed THEN r.persisted + 1
                                            ELSE r.persisted],
                    FALSE)]
    /\ UNCHANGED << tasks, subscribers, waiters, stops, ret >>

\* ------------------------------------------------------------------ stop_bot
FreshStop == CHOOSE s \in StopIds : stops[s].state = "idle" /\
                 \A u \in StopIds : u < s => stops[u].state # "idle"

\* what "await task" gives for a finished task and what stop_bot then does:
\* a result or a CancelledError lead to "del self._tasks[key]", which raises
\* KeyError when the key is gone; any other exception leaves stop_bot at once
AfterAwait(call, result, tk) ==
    IF result = "error"
    THEN [tasks |-> tk, stop |-> [call EXCEPT !.state = "raised", !.exc = "error"]]
    ELSE IF tk[call.key] = 0
    THEN [tasks |-> tk, stop |-> [call EXCEPT !.state = "raised", !.exc = "KeyError"]]
    ELSE [tasks |-> [tk EXCEPT ![call.key] = 0],
          stop |-> [call EXCEPT !.state = "returned"]]

\* "if task:" finds no task under the key: stop_bot returns
StopWithoutTaskRaises(call) == [call EXCEPT !.state = "raised", !.exc = "KeyError"]
StopWithoutTask(call) == [call EXCEPT !.state = "returned"]

\* stop_bot up to "await task": lines 87-92.  Task.cancel() does nothing on a
\* finished task, and awaiting a finished task does not suspend.
StopBot(key) ==
    /\ ~Running
    /\ \E s \in StopIds : stops[s].state = "idle"
    /\ LET s == FreshStop
           task == tasks[key]
           call == [NoStop EXCEPT !.key = key, !.task = task]
       IN IF task = 0
          THEN /\ stops' = [stops EXCEPT ![s] = StopWithoutTask(call)]
               /\ UNCHANGED << tasks, loop, waiters >>
          ELSE IF Done(task)
          THEN LET a == AfterAwait(call, loop[task].result, tasks) IN
               /\ stops' = [stops EXCEPT ![s] = a.stop]
               /\ tasks' = a.tasks
               /\ UNCHANGED << loop, waiters >>
          ELSE /\ loop' = [loop EXCEPT ![task].must_cancel = TRUE]
               /\ waiters' = [waiters EXCEPT ![task] = Append(@, s)]
               /\ stops' = [stops EXCEPT ![s] = [call EXCEPT !.state = "waiting"]]
               /\ UNCHANGED tasks
    /\ UNCHANGED << subscribers, ret >>

\* the stop_bot calls suspended on a task resume one after the other, in the
\* order in which they began to wait, when the task has finished
RECURSIVE ResumeAll(_, _, _, _)
ResumeAll(ws, result, tk, st) ==
    IF ws = << >> THEN [tasks |-> tk, stops |-> st]
    ELSE LET s == Head(ws)
             a == AfterAwait(st[s], result, tk)
         IN ResumeAll(Tail(ws), result, a.tasks, [st EXCEPT ![s] = a.stop])

Wake(t) ==
    /\ ~Running
    /\ Done(t)
    /\ waiters[t] # << >>
    /\ LET a == ResumeAll(waiters[t], loop[t].result, tasks, stops) IN
       /\ tasks' = a.tasks
       /\ stops' = a.stops
    /\ waiters' = [waiters EXCEPT ![t] = << >>]
    /\ UNCHANGED << subscribers, loop, ret >>

\* ------------------------------------------------- subscribe / unsubscribe
Subscribe(user_id, websocket) ==
    /\ ~Running
    /\ subscribers' = [subscribers EXCEPT ![user_id] = @ \cup {websocket}]
    /\ UNCHANGED << tasks, loop, waiters, stops, ret >>

Unsubscribe(user_id, websocket) ==
    /\ ~Running
    /\ subscribers' = [subscribers EXCEPT ![user_id] = @ \ {websocket}]
    /\ UNCHANGED << tasks, loop, waiters, stops, ret >>

\* ------------------------------------------------------------ specification
\* the exchange whose fetch_ticker the coroutine of task t is awaiting
CurExchange(t) ==
    IF loop[t].pc = "fetch" THEN loop[t].clients[loop[t].xi] ELSE "none"

\* one run of the coroutine of task t, or the resumption of its waiters;
\* quotes[name] are the outcomes of fetch_ticker on exchange name, orderOks
\* and persistOks those of the order calls and of create_trade_log
Step(t, quotes, orderOks, persistOks) ==
    \/ FirstStep(t)
    \/ \E outcome \in quotes[CurExchange(t)] : FetchDone(t, outcome)
    \/ Eval(t)
    \/ \E ok \in BOOLEAN : SendDone(t, ok)
    \/ TradeCheck(t)
    \/ \E ok \in orderOks : BuyDone(t, ok)
    \/ \E ok \in orderOks : SellDone(t, ok)
    \/ \E ok \in persistOks : PersistDone(t, ok)
    \/ NextCoin(t)
    \/ SleepDone(t)
    \/ CloseDone(t)
    \/ \E committed \in BOOLEAN : CancelDeliver(t, committed)
    \/ Wake(t)

\* The registry of one key under concurrent start_bot and stop_bot calls: live
\* bots on one coin, binance quoting 10 and kraken 20 so that every cycle
\* trades, orders that succeed, a trade log that may fail.
LifeKeys == { <<1, 1>> }
LifeExchangeKeyLists ==
    { << EK("binance", FALSE) >>,
      << EK("binance", TRUE), EK("nosuch", TRUE), EK("kraken", TRUE) >> }
LifeConfigs == { Cfg("live", 3, 2, 5) }
LifeCoinLists == { <<"BTC">> }
LifeObservers == { "ws1" }
LifeQuotes ==
    [name \in Supported \cup {"none"} |->
        CASE name = "binance" -> { Some(Ticker(Some(10), Some(10))) }
          [] name = "kraken" -> { Some(Ticker(Some(20), Some(20))) }
          [] OTHER -> {}]

Next ==
    \/ \E key \in LifeKeys, eks \in LifeExchangeKeyLists, config \in LifeConfigs,
          coins \in LifeCoinLists : StartBot(key, eks, config, coins)
    \/ \E key \in LifeKeys : StopBot(key)
    \/ \E t \in TaskIds : Step(t, LifeQuotes, {TRUE}, BOOLEAN)
    \/ \E u \in Users, ws \in LifeObservers : Subscribe(u, ws)
    \/ \E u \in Users, ws \in LifeObservers : Unsubscribe(u, ws)

Spec == Init /\ [][Next]_vars

\* Two bots side by side: the same environment with both keys, at most
\* IsoTasks tasks and IsoStops stop_bot calls.
IsoTasks == 2
IsoStops == 1
IsoExchangeKeyLists ==
    { << EK("binance", TRUE), EK("nosuch", TRUE), EK("kraken", TRUE) >> }

NextIso ==
    \/ /\ loop[IsoTasks].pc = "unborn"
       /\ \E key \in Keys, eks \in IsoExchangeKeyLists, config \in LifeConfigs,
             coins \in LifeCoinLists : StartBot(key, eks, config, coins)
    \/ /\ stops[IsoStops].state = "idle"
       /\ \E key \in Keys : StopBot(key)
    \/ \E t \in TaskIds : Step(t, LifeQuotes, {TRUE}, BOOLEAN)
    \/ \E u \in Users, ws \in LifeObservers : Subscribe(u, ws)
    \/ \E u \in Users, ws \in LifeObservers : Unsubscribe(u, ws)

SpecIso == Init /\ [][NextIso]_vars

\* One bot and its trades: credentials that give two clients or none (all
\* disabled, or the one enabled not supported), sandbox and live
\* configurations with budgets above, at and below zero, binance quoting 10
\* or failing and kraken quoting 10 or 20, orders and trade-log writes that
\* may fail, at most TradeStops stop_bot calls, for the key of the bot or for
\* a key that was never started.
TradeTasks == 1
TradeStops == 1
TradeExchangeKeyLists ==
    { << EK("binance", TRUE), EK("kraken", TRUE) >>,
      << EK("binance", FALSE), EK("kraken", FALSE) >>,
      << EK("binance", FALSE), EK("nosuch", TRUE) >> }
TradeConfigs ==
    { Cfg("sandbox", 3, 2, 5),
      Cfg("live", 3, 2, 5),
      Cfg("live", 0, 2, 5),
      Cfg("live", -1, 2, 5) }
TradeCoinLists == { <<"BTC">> }
TradeQuotes ==
    [name \in Supported \cup {"none"} |->
        CASE name = "binance" -> { None, Some(Ticker(Some(10), Some(10))) }
          [] name = "kraken" -> { Some(Ticker(Some(10), Some(10))),
                                  Some(Ticker(Some(20), Some(20))) }
          [] OTHER -> {}]

NextTrade ==
    \/ /\ loop[TradeTasks].pc = "unborn"
       /\ \E key \in LifeKeys, eks \in TradeExchangeKeyLists, config \in TradeConfigs,
             coins \in TradeCoinLists : StartBot(key, eks, config, coins)
    \/ /\ stops[TradeStops].state = "idle"
       /\ \E key \in Keys : StopBot(key)
    \/ \E t \in TaskIds : Step(t, TradeQuotes, BOOLEAN, BOOLEAN)
    \/ \E u \in Users, ws \in LifeObservers : Subscribe(u, ws)
    \/ \E u \in Users, ws \in LifeObservers : Unsubscribe(u, ws)

SpecTrade == Init /\ [][NextTrade]_vars

\* One bot that nobody stops, on one coin and three exchanges, over the
\* tickers an exchange may answer with: a failed request, a ticker without
\* prices, and tickers whose ask or last price is missing or 0.  The tolerance
\* of 50 percent is the spread of the prices 10 and 20.  The orders succeed,
\* the write of the trade log may fail.
QuoteExchangeKeyLists ==
    { << EK("binance", TRUE), EK("kraken", TRUE), EK("okx", TRUE) >> }
QuoteConfigs == { Cfg("live", 3, 2, 50) }
QuoteOutcomes ==
    { None,
      Some(Ticker(None, None)),
      Some(Ticker(Some(0), Some(20))),
      Some(Ticker(Some(10), None)),
      Some(Ticker(None, Some(0))),
      Some(Ticker(Some(5), Some(10))) }
QuoteQuotes ==
    [name \in Supported \cup {"none"} |->
        IF name \in Supported THEN QuoteOutcomes ELSE {}]

\* one run of the coroutine of task t when its task is never cancelled
ScanStep(t, quotes, orderOks, persistOks) ==
    \/ FirstStep(t)
    \/ \E outcome \in quotes[CurExchange(t)] : FetchDone(t, outcome)
    \/ Eval(t)
    \/ \E ok \in BOOLEAN : SendDone(t, ok)
    \/ TradeCheck(t)
    \/ \E ok \in orderOks : BuyDone(t, ok)
    \/ \E ok \in orderOks : SellDone(t, ok)
    \/ \E ok \in persistOks : PersistDone(t, ok)
    \/ NextCoin(t)
    \/ SleepDone(t)
    \/ CloseDone(t)

NextQuotes ==
    \/ \E key \in LifeKeys, eks \in QuoteExchangeKeyLists, config \in QuoteConfigs,
          coins \in TradeCoinLists : StartBot(key, eks, config, coins)
    \/ \E t \in TaskIds : ScanStep(t, QuoteQuotes, {TRUE}, BOOLEAN)
    \/ \E u \in Users, ws \in LifeObservers : Subscribe(u, ws)
    \/ \E u \in Users, ws \in LifeObservers : Unsubscribe(u, ws)

SpecQuotes == Init /\ [][NextQuotes]_vars

\* One live bot that nobody stops, on two coins and two exchanges, binance
\* quoting 10 or failing and kraken quoting 20, with orders and trade-log
\* writes that may fail.  The event loop runs every task that is ready, and
\* every awaited call (a request to an exchange, a send, a write of the trade
\* log, the sleep, a close) returns or raises in the end: each task's step is
\* weakly fair.
CoinCoinLists == { <<"BTC", "ETH">> }
CoinQuotes ==
    [name \in Supported \cup {"none"} |->
        CASE name = "binance" -> { None, Some(Ticker(Some(10), Some(10))) }
          [] name = "kraken" -> { Some(Ticker(Some(20), Some(20))) }
          [] OTHER -> {}]

NextCoins ==
    \/ \E key \in LifeKeys, eks \in TradeExchangeKeyLists, config \in LifeConfigs,
          coins \in CoinCoinLists : StartBot(key, eks, config, coins)
    \/ \E t \in TaskIds : ScanStep(t, CoinQuotes, BOOLEAN, BOOLEAN)
    \/ \E u \in Users, ws \in LifeObservers : Subscribe(u, ws)
    \/ \E u \in Users, ws \in LifeObservers : Unsubscribe(u, ws)

SpecCoins ==
    /\ Init /\ [][NextCoins]_vars
    /\ \A t \in TaskIds : WF_vars(ScanStep(t, CoinQuotes, BOOLEAN, BOOLEAN))

\* One live bot that nobody stops, on one coin, binance quoting 10 and kraken
\* 20, so that every cycle broadcasts a ticker message and, the trade log
\* written, a trade message, to up to three observers that subscribe and
\* unsubscribe at any time and whose connections may fail at any send.
CastExchangeKeyLists == { << EK("binance", TRUE), EK("kraken", TRUE) >> }
CastObservers == { "ws1", "ws2", "ws3" }
CastQuotes ==
    [name \in Supported \cup {"none"} |->
        CASE name = "binance" -> { Some(Ticker(Some(10), Some(10))) }
          [] name = "kraken" -> { Some(Ticker(Some(20), Some(20))) }
          [] OTHER -> {}]

NextCast ==
    \/ \E key \in LifeKeys, eks \in CastExchangeKeyLists, config \in LifeConfigs,
          coins \in LifeCoinLists : StartBot(key, eks, config, coins)
    \/ \E t \in TaskIds : ScanStep(t, CastQuotes, {TRUE}, BOOLEAN)
    \/ \E u \in Users, ws \in CastObservers : Subscribe(u, ws)
    \/ \E u \in Users, ws \in CastObservers : Unsubscribe(u, ws)

SpecCast == Init /\ [][NextCast]_vars

\* ==================================================================== claims
\* the tasks of key k whose coroutine has not terminated
LoopsOf(k) == { t \in TaskIds : Alive(t) /\ loop[t].key = k }

\* every client built for the run r has had close() called
AllClosed(r) == \A i \in 1..Len(r.clients) : r.close_calls[i] >= 1

\* this step is a start_bot call for key k (one that repeats the previous
\* call with the same outcome is not told apart from no call)
IsStart(k) == ret' # ret /\ ret'.op = "start_bot" /\ ret'.key = k

\* this step makes the stop_bot call s return
Returns(s) == stops[s].state # "returned" /\ stops'[s].state = "returned"

\* C1: at any time at most one bot loop that has not terminated exists for a
\* key, under every interleaving of start_bot and stop_bot calls.
C1_AtMostOneLoopPerKey == \A k \in Keys : Cardinality(LoopsOf(k)) <= 1

\* C2: a start_bot call for a key whose loop is running is a no-op: it spawns
\* no loop, leaves the registry unchanged and reports no error, so that one
\* loop is active afterwards.
C2_StartWhileRunningIsNoOp ==
    [][\A k \in Keys :
          (IsStart(k) /\ LoopsOf(k) # {}) =>
              /\ ret'.outcome = "already_running"
              /\ tasks' = tasks
              /\ loop' = loop
              /\ Cardinality(LoopsOf(k)) = 1]_vars

\* C3: when a stop_bot call for a key that had a handle returns, the loop has
\* terminated, every client of the run has been closed and the key has no
\* handle; and a handle is never removed while its loop is still running.
C3_StopReturnsAfterFullExit ==
    [][/\ \A s \in StopIds :
             (Returns(s) /\ stops'[s].task # 0) =>
                 /\ loop'[stops'[s].task].pc = "done"
                 /\ AllClosed(loop'[stops'[s].task])
                 /\ tasks'[stops'[s].key] = 0
       /\ \A k \in Keys :
             (tasks[k] # 0 /\ tasks'[k] # tasks[k]) => Done(tasks[k])]_vars

\* C4: a loop that built clients and terminates, on whatever exit path, has
\* called close() exactly once on each of them.
C4_EveryClientClosedOnce ==
    \A t \in TaskIds :
        Done(t) => \A i \in 1..Len(loop[t].clients) : loop[t].close_calls[i] = 1

\* C5: a loop that terminated by itself leaves no handle behind: a start_bot
\* call for a key whose registered loop has terminated without any stop_bot
\* spawns a new loop.
C5_StartAfterSelfTermination ==
    [][\A k \in Keys :
          (/\ IsStart(k)
           /\ tasks[k] # 0
           /\ Done(tasks[k])
           /\ waiters[tasks[k]] = << >>
           /\ \E t \in TaskIds : loop[t].pc = "unborn")
          => ret'.outcome = "spawned"]_vars

\* C6: repeated stop_bot calls on a key, one after the other or overlapping,
\* all return without raising, and the key ends with no handle.
C6_StopNeverRaises == \A s \in StopIds : stops[s].state # "raised"

\* C7: after the unexpected failure of one bot the loops of the other keys
\* are untouched, and a stop_bot for the failed key returns without error and
\* removes the handle.
C7_FailureIsContained ==
    [][/\ \A t \in TaskIds :
             (~loop[t].failed /\ loop'[t].failed) =>
                 \A u \in TaskIds \ {t} : loop'[u] = loop[u]
       /\ \A s \in StopIds :
             (/\ stops[s].state = "idle" /\ stops'[s].state # "idle"
              /\ stops'[s].task # 0
              /\ loop[stops'[s].task].result = "error")
             => /\ stops'[s].state = "returned"
                /\ tasks'[stops'[s].key] = 0]_vars

\* program points between the decision to trade and the end of the trade-log
\* write
TradePcs == {"buy", "sell", "persist"}

\* C8: every trade attempt ends with exactly one persisted TradeRecord, on the
\* executed and on the error path, whenever stop_bot arrives: a loop that is
\* not in the middle of a trade has written as many rows as it made attempts.
C8_OneRecordPerAttempt ==
    [][\A t \in TaskIds :
          (loop[t].pc \in TradePcs /\ loop'[t].pc \notin TradePcs) =>
              IF Done(t)' THEN loop[t].persisted = loop[t].attempts
              ELSE loop'[t].persisted = loop'[t].attempts]_vars

\* this step takes the trade of task t past the budget update of line 224
CompletesTrade(t) == loop[t].pc = "persist" /\ Len(loop'[t].records) = Len(loop[t].records) + 1

\* C9: config.budget changes only where a live trade with status executed
\* completes, and then by the trade size; a sandbox trade and a trade with
\* status error leave it as it was, so that a sandbox budget always equals the
\* initial one.  The frame is stated for every step of a loop up to the one
\* that ends its task, after which the config object is no longer held.
C9_BudgetFrame ==
    [][\A t \in TaskIds :
          (Alive(t) /\ Alive(t)') =>
              /\ loop'[t].config.budget # loop[t].config.budget =>
                     /\ CompletesTrade(t)
                     /\ loop[t].config.mode = "live"
                     /\ loop[t].status = "executed"
                     /\ loop'[t].config.budget
                            = loop[t].config.budget - loop[t].trade_size_usd
              /\ (CompletesTrade(t) /\ (loop[t].config.mode = "sandbox"
                                         \/ loop[t].status = "error")) =>
                     loop'[t].config.budget = loop[t].config.budget
              /\ loop[t].config.mode = "sandbox" =>
                     loop'[t].config.budget = loop[t].budget0]_vars

\* a sandbox bot has completed two trades of size 2
C9_Witness ==
    \E t \in TaskIds :
        /\ loop[t].config.mode = "sandbox"
        /\ loop[t].persisted >= 2
        /\ loop[t].spent = 4

\* C10: in live mode with an initial budget >= 0 the budget is never negative
\* and equals the initial budget minus the sum of the sizes of the executed
\* trades, each size being min(max_trade_size, budget at that trade).
C10_LiveBudget ==
    \A t \in TaskIds :
        (loop[t].pc # "unborn" /\ loop[t].config.mode = "live" /\ loop[t].budget0 >= 0) =>
            /\ loop[t].config.budget >= 0
            /\ loop[t].config.budget = loop[t].budget0 - loop[t].spent
            /\ loop[t].pc \in TradePcs =>
                   loop[t].trade_size_usd
                       = Min(loop[t].config.max_trade_size, loop[t].config.budget)

\* a live bot has spent its whole budget of 3 in two executed trades, the
\* second one cut down to the 1 that was left
C10_Witness ==
    \E t \in TaskIds :
        /\ loop[t].config.mode = "live"
        /\ loop[t].budget0 = 3
        /\ loop[t].persisted = 2
        /\ loop[t].spent = 3
        /\ loop[t].config.budget = 0

\* the loop is broadcasting the trade message of its current trade
SendsTrade(r) == r.pc = "send" /\ r.bkind = "trade"

\* C11: when the best buy price is <= 0 no trade occurs: no order is placed,
\* no TradeRecord is persisted, no trade message is broadcast (and so the
\* budget is untouched).  Every trade under way and every row written has a
\* best buy price > 0.
C11_NoTradeAtNonPositiveBuy ==
    \A t \in TaskIds :
        /\ (loop[t].pc \in TradePcs \/ SendsTrade(loop[t])) =>
               loop[t].best.buy[1].price > 0
        /\ \A i \in 1..Len(loop[t].records) : loop[t].records[i].price_buy > 0

\* the spread of the best pair, as a fraction of the sell price, is strictly
\* above / equal to the tolerance of the config (held in percent)
StrictlyAbove(r) ==
    (r.best.sell[1].price - r.best.buy[1].price) * 100
        > r.config.slippage_tolerance * r.best.sell[1].price
AtTolerance(r) ==
    (r.best.sell[1].price - r.best.buy[1].price) * 100
        = r.config.slippage_tolerance * r.best.sell[1].price

\* C12: a trade attempt happens for a coin exactly when the coin has an
\* opportunity whose spread is strictly greater than the slippage tolerance:
\* the steps that begin an attempt are the decisions at line 185 on such an
\* opportunity, and a decision on any other spread, one equal to the
\* tolerance included, goes on to the next coin with no order and no record.
C12_TradeIffSpreadExceeds ==
    [][\A t \in TaskIds :
          (Alive(t) /\ Alive(t)') =>
              /\ loop'[t].attempts # loop[t].attempts <=>
                     /\ loop[t].pc = "trade_check"
                     /\ HasOpportunity(loop[t].best)
                     /\ StrictlyAbove(loop[t])
              /\ loop'[t].attempts # loop[t].attempts =>
                     /\ loop'[t].attempts = loop[t].attempts + 1
                     /\ loop'[t].pc \in TradePcs
              /\ (loop[t].pc = "trade_check" /\ ~StrictlyAbove(loop[t])) =>
                     /\ loop'[t].pc = "next_coin"
                     /\ loop'[t].orders = loop[t].orders
                     /\ loop'[t].records = loop[t].records
              /\ loop'[t].pc \in TradePcs => loop[t].pc \in TradePcs \cup {"trade_check"}]_vars

\* the spread of the prices 10 and 20 equals the tolerance of 50 percent and
\* the loop has gone past the coin without a trade
C12_Witness ==
    \E t \in TaskIds :
        /\ loop[t].pc = "next_coin"
        /\ loop[t].best.buy # None
        /\ loop[t].best.buy[1].price = 10
        /\ AtTolerance(loop[t])
        /\ loop[t].attempts = 0
        /\ loop[t].orders = << >>
        /\ loop[t].records = << >>

\* C13: in sandbox mode no market buy or sell is ever issued, and every trade
\* record and every trade message has status executed and no error message.
C13_SandboxIsSimulation ==
    \A t \in TaskIds :
        (Alive(t) /\ loop[t].config.mode = "sandbox") =>
            /\ loop[t].orders = << >>
            /\ loop[t].pc \notin {"buy", "sell"}
            /\ loop[t].status \in {"none", "executed"}
            /\ SendsTrade(loop[t]) => loop[t].status = "executed"
            /\ \A i \in 1..Len(loop[t].records) :
                   /\ loop[t].records[i].status = "executed"
                   /\ loop[t].records[i].error_message = None

\* a sandbox bot has written the record of a trade and is broadcasting its
\* trade message
C13_Witness ==
    \E t \in TaskIds :
        /\ loop[t].config.mode = "sandbox"
        /\ SendsTrade(loop[t])
        /\ Len(loop[t].records) = 1
        /\ loop[t].records[1].mode = "sandbox"
        /\ loop[t].attempts = 1

Last(q) == q[Len(q)]

\* C14: in live mode the market buy goes to the best-buy exchange first; the
\* market sell goes to the best-sell exchange, for the same amount, only once
\* the buy has returned; a buy that fails is followed by no sell; a failure
\* of either order gives status error with the message of the failure, and no
\* further order is issued for a buy that had succeeded.
C14_BuyThenSell ==
    [][\A t \in TaskIds :
          (Alive(t) /\ Alive(t)' /\ loop[t].config.mode = "live") =>
              /\ (loop'[t].orders # loop[t].orders /\ loop'[t].orders # << >>) =>
                     /\ Len(loop'[t].orders) = Len(loop[t].orders) + 1
                     /\ LET o == Last(loop'[t].orders) IN
                        \/ /\ o.side = "buy"
                           /\ loop[t].pc = "trade_check" /\ loop'[t].pc = "buy"
                           /\ o.exchange = loop[t].best.buy[1].exchange
                           /\ o.amount = loop'[t].amount
                        \/ /\ o.side = "sell"
                           /\ loop[t].pc = "buy" /\ loop'[t].pc = "sell"
                           /\ loop'[t].status = "executed"
                           /\ o.exchange = loop[t].best.sell[1].exchange
                           /\ Last(loop[t].orders).side = "buy"
                           /\ o.amount = Last(loop[t].orders).amount
                           /\ o.coin = Last(loop[t].orders).coin
              /\ (loop[t].pc = "buy" /\ loop'[t].pc = "persist") =>
                     /\ loop'[t].status = "error"
                     /\ loop'[t].orders = loop[t].orders
              /\ (loop[t].pc = "sell" /\ loop'[t].pc = "persist") =>
                     loop'[t].orders = loop[t].orders
              /\ (loop[t].status = "error" /\ loop'[t].status = "error") =>
                     loop'[t].orders = loop[t].orders
              /\ (CompletesTrade(t) /\ loop[t].status = "error") =>
                     /\ Last(loop'[t].records).status = "error"
                     /\ Last(loop'[t].records).error_message # None]_vars

\* the buy of a live trade has failed: one order, the buy, was issued and the
\* trade is being recorded with status error
C14_Witness ==
    \E t \in TaskIds :
        /\ loop[t].config.mode = "live"
        /\ loop[t].pc = "persist"
        /\ loop[t].status = "error"
        /\ Len(loop[t].orders) = 1
        /\ loop[t].orders[1].side = "buy"

\* the write of the trade log has raised and ended the loop
TradeLogFailed(t) == loop[t].failed \/ (Done(t) /\ loop[t].result = "error")

\* the live trade of coin i of the current cycle has had an order fail and is
\* at the write of its record, and the cycle is not the last one modelled
OrderFailed(t, i) ==
    /\ loop[t].pc = "persist" /\ loop[t].status = "error"
    /\ loop[t].ci = i /\ loop[t].cycle < MaxCycles

Answered(r, c) == { i \in 1..Len(r.results[c]) : r.results[c][i] # None }

\* C16: a failing quote request gives a missing quote for its (coin, exchange)
\* pair only and never aborts the cycle: the step in which a request returns
\* or fails adds one entry, keeps the entries of the other pairs and goes on
\* to the next request or to the evaluation; the evaluation starts with one
\* entry per coin and exchange, and every coin is evaluated, its best pair
\* taken from the exchanges that answered for it.
C16_FailedQuoteIsLocal ==
    [][\A t \in TaskIds :
          LET r == loop[t]
              n == loop'[t]
          IN /\ (r.pc = "fetch" /\ n # r /\ ~r.must_cancel /\ ~n.must_cancel) =>
                    /\ n.pc \in {"fetch", "eval"}
                    /\ n.cycle = r.cycle
                    /\ \/ /\ Len(n.tickers) = Len(r.tickers) + 1
                          /\ SubSeq(n.tickers, 1, Len(r.tickers)) = r.tickers
                          /\ n.results = r.results
                       \/ /\ Len(n.results) = Len(r.results) + 1
                          /\ SubSeq(n.results, 1, Len(r.results)) = r.results
                          /\ Len(Last(n.results)) = Len(r.tickers) + 1
                          /\ SubSeq(Last(n.results), 1, Len(r.tickers)) = r.tickers
                    /\ n.pc = "eval" =>
                           /\ Len(n.results) = Len(r.coins)
                           /\ \A c \in 1..Len(r.coins) :
                                  Len(n.results[c]) = Len(r.clients)
             /\ (r.pc = "eval" /\ n # r) =>
                    /\ n.results = r.results
                    /\ Answered(r, r.ci) # {} =>
                           /\ n.best.buy # None /\ n.best.sell # None
                           /\ \E i \in Answered(r, r.ci) :
                                  n.best.buy[1].exchange = r.clients[i]
                           /\ \E i \in Answered(r, r.ci) :
                                  n.best.sell[1].exchange = r.clients[i]
             /\ (r.pc = "next_coin" /\ r.ci < Len(r.coins) /\ n # r) =>
                    n.pc = "eval" /\ n.ci = r.ci + 1 /\ n.results = r.results]_vars

\* the request to binance failed for the first coin and the second coin, for
\* which both exchanges answered, is being evaluated
C16_Witness ==
    \E t \in TaskIds :
        /\ loop[t].pc = "eval" /\ loop[t].ci = 2
        /\ loop[t].results[1][1] = None
        /\ loop[t].results[1][2] # None
        /\ loop[t].results[2][1] # None
        /\ loop[t].results[2][2] # None

\* C17: within a scan cycle the quote requests run concurrently: while the
\* loop waits for quotes every request of the cycle that has not completed
\* is in flight, so that no request waits for another one to return; and all
\* of them have completed or failed when the first coin is evaluated.
C17_QuotesFetchedConcurrently ==
    \A t \in TaskIds :
        /\ loop[t].pc = "fetch" =>
               InFlight(loop[t]) = Requests(loop[t]) \ Completed(loop[t])
        /\ loop[t].pc = "eval" =>
               /\ Len(loop[t].results) = Len(loop[t].coins)
               /\ \A c \in 1..Len(loop[t].coins) :
                      Len(loop[t].results[c]) = Len(loop[t].clients)

\* some credential of the list is enabled and names an exchange for which a
\* client can be constructed
Usable(eks) ==
    \E i \in 1..Len(eks) : eks[i].is_enabled /\ eks[i].exchange \in Supported

\* C18: with no enabled credential, or none whose exchange is constructible,
\* the bot does not start: the task that start_bot spawned ends in its first
\* run, without error, having built no client, requested no quote, sent no
\* message and traded nothing, and start_bot reports no error.
C18_NoUsableClientNoBot ==
    [][/\ \A t \in TaskIds :
             (/\ loop[t].pc = "created" /\ ~Usable(loop[t].exchange_keys)
              /\ loop'[t] # loop[t] /\ ~loop'[t].must_cancel) =>
                 /\ loop'[t].pc = "done"
                 /\ loop'[t].result \in {"ok", "cancelled"}
                 /\ loop'[t].clients = << >>
                 /\ subscribers' = subscribers
       /\ \A k \in Keys :
             IsStart(k) => ret'.outcome \in {"spawned", "already_running"}]_vars

\* a task started without a usable credential has ended by itself and left
\* nothing behind but its handle
C18_Witness ==
    \E t \in TaskIds :
        /\ Done(t) /\ loop[t].result = "ok"
        /\ loop[t].clients = << >>
        /\ tasks[loop[t].key] = t
        /\ LoopsOf(loop[t].key) = {}

\* this step is the call s of stop_bot, made for a key without handle
StopsAbsentKey(s) ==
    /\ stops[s].state = "idle" /\ stops'[s].state # "idle"
    /\ tasks[stops'[s].key] = 0

\* C19: stop_bot for a key that has no handle is a no-op: it returns without
\* error, cancels nothing and leaves the registry and every loop as they were.
C19_StopWithoutHandleIsNoOp ==
    [][\A s \in StopIds :
          StopsAbsentKey(s) =>
              /\ stops'[s].state = "returned"
              /\ tasks' = tasks
              /\ loop' = loop
              /\ waiters' = waiters
              /\ subscribers' = subscribers]_vars

\* stop_bot for a key without handle has returned while the loop of the other
\* key runs, not cancelled
C19_Witness ==
    \E s \in StopIds : \E t \in TaskIds :
        /\ stops[s].state = "returned" /\ stops[s].task = 0
        /\ Alive(t) /\ loop[t].key # stops[s].key
        /\ loop[t].pc = "sell"
        /\ ~loop[t].must_cancel
        /\ tasks[loop[t].key] = t

\* the tickers of a coin that give a quote, and the prices of these quotes
\* (the price of a quote is the one line 165 takes from the ticker)
ValidQuotes(tickers) ==
    { i \in 1..Len(tickers) : tickers[i] # None /\ PriceOf(tickers[i][1]) # None }
ValidPrices(tickers) ==
    { PriceOf(tickers[i][1])[1] : i \in ValidQuotes(tickers) }

\* C20: for the quote set of a coin with at least one valid quote, the best
\* buy price is <= every valid quote price, the best sell price is >= every
\* valid quote price, and both are prices of quotes of the set; this is the
\* pair the evaluation of the coin goes on with.
C20_BestBoundsAllQuotes ==
    [][\A t \in TaskIds :
          (loop[t].pc = "eval" /\ loop'[t] # loop[t]) =>
              LET tickers == loop[t].results[loop[t].ci]
                  V == ValidPrices(tickers)
                  b == Best(tickers, loop[t].clients)
              IN V # {} =>
                     /\ b.buy # None /\ b.sell # None
                     /\ b.buy[1].price \in V /\ b.sell[1].price \in V
                     /\ \A p \in V : b.buy[1].price <= p /\ p <= b.sell[1].price
                     /\ IF b.sell[1].price > 0
                        THEN loop'[t].best = b
                        ELSE loop'[t].pc = "next_coin"]_vars

\* binance quotes 10, kraken 5 and okx 20: the best pair is kraken's 5 and
\* okx's 20
C20_Witness ==
    \E t \in TaskIds :
        /\ loop[t].pc = "trade_check"
        /\ ValidPrices(loop[t].results[1]) = {5, 10, 20}
        /\ loop[t].best.buy = Some(Quote("kraken", 5))
        /\ loop[t].best.sell = Some(Quote("okx", 20))

\* the price the quote of exchange number i carries
PriceAt(tickers, i) == PriceOf(tickers[i][1])[1]

\* the first exchange, in iteration order, among those whose quote has price p
FirstAt(tickers, p) ==
    CHOOSE i \in ValidQuotes(tickers) :
        /\ PriceAt(tickers, i) = p
        /\ \A j \in ValidQuotes(tickers) : PriceAt(tickers, j) = p => i <= j

\* C21: when several valid quotes share the minimum price the best buy is the
\* one of the exchange that comes first in iteration order, and the best sell
\* is the first one among those sharing the maximum price.
C21_TieGoesToFirstExchange ==
    [][\A t \in TaskIds :
          (loop[t].pc = "eval" /\ loop'[t] # loop[t]) =>
              LET tickers == loop[t].results[loop[t].ci]
                  b == Best(tickers, loop[t].clients)
              IN ValidQuotes(tickers) # {} =>
                     /\ b.buy[1].exchange
                            = loop[t].clients[FirstAt(tickers, b.buy[1].price)]
                     /\ b.sell[1].exchange
                            = loop[t].clients[FirstAt(tickers, b.sell[1].price)]
                     /\ b.sell[1].price > 0 => loop'[t].best = b]_vars

\* kraken and okx both quote the minimum 5 and binance the maximum 20: the
\* best buy is kraken's
C21_Witness ==
    \E t \in TaskIds :
        /\ loop[t].pc = "trade_check"
        /\ ValidQuotes(loop[t].results[1]) = {1, 2, 3}
        /\ PriceAt(loop[t].results[1], 1) = 20
        /\ PriceAt(loop[t].results[1], 2) = 5
        /\ PriceAt(loop[t].results[1], 3) = 5
        /\ loop[t].best.buy = Some(Quote("kraken", 5))
        /\ loop[t].best.sell = Some(Quote("binance", 20))

\* the price of a quote as C22 states it: the ask price when the ticker has
\* one, whatever its value, and the last-trade price otherwise
QuotePrice(ticker) == IF ticker.ask # None THEN ticker.ask ELSE ticker.last

\* the prices of the tickers of a coin under that rule
QuotePrices(tickers) ==
    { QuotePrice(tickers[i][1])[1] :
          i \in { j \in 1..Len(tickers) :
                      tickers[j] # None /\ QuotePrice(tickers[j][1]) # None } }

\* C22: the price used for a quote is its ask price whenever an ask price is
\* present, 0 included, and its last-trade price otherwise, and a quote with
\* neither is left out: the evaluation of a coin takes this price from every
\* ticker, and the best pair it goes on with carries such prices.
C22_AskFirstThenLast ==
    [][\A t \in TaskIds :
          (loop[t].pc = "eval" /\ loop'[t] # loop[t]) =>
              LET tickers == loop[t].results[loop[t].ci] IN
              /\ \A i \in 1..Len(tickers) :
                     tickers[i] # None =>
                         PriceOf(tickers[i][1]) = QuotePrice(tickers[i][1])
              /\ loop'[t].best.buy # None =>
                     /\ loop'[t].best.buy[1].price \in QuotePrices(tickers)
                     /\ loop'[t].best.sell[1].price \in QuotePrices(tickers)]_vars

\* C23: for every reported opportunity, whose best sell price is > 0, the
\* spread (sell - buy) / sell is strictly less than 1, whatever prices the
\* exchanges return.
C23_SpreadBelowOne ==
    \A t \in TaskIds :
        loop[t].best.buy # None =>
            /\ loop[t].best.sell[1].price > 0
            /\ loop[t].best.sell[1].price - loop[t].best.buy[1].price
                   < loop[t].best.sell[1].price

\* the quotes of the coin under evaluation give no opportunity: none is
\* valid, or the best sell price is <= 0
NothingToReport(r) ==
    LET tickers == r.results[r.ci] IN
    \/ ValidQuotes(tickers) = {}
    \/ \A i \in ValidQuotes(tickers) : PriceAt(tickers, i) <= 0

\* C24: for a coin with no valid quote in a cycle, or whose best sell price
\* is <= 0, no opportunity is reported: the evaluation goes on to the next
\* coin with no ticker message sent and no trade attempted.
C24_NoQuoteNoOpportunity ==
    [][\A t \in TaskIds :
          (loop[t].pc = "eval" /\ loop'[t] # loop[t] /\ NothingToReport(loop[t])) =>
              /\ loop'[t].pc = "next_coin"
              /\ loop'[t].best = NoBest
              /\ loop'[t].queue = << >>
              /\ loop'[t].attempts = loop[t].attempts
              /\ loop'[t].orders = loop[t].orders
              /\ loop'[t].records = loop[t].records
              /\ subscribers' = subscribers]_vars

\* every quote of the coin has price 0: with an observer subscribed the loop
\* has gone past the coin without message or trade
C24_Witness ==
    \E t \in TaskIds :
        /\ loop[t].pc = "next_coin"
        /\ loop[t].best = NoBest
        /\ ValidPrices(loop[t].results[1]) = {0}
        /\ subscribers[loop[t].key[1]] # {}
        /\ loop[t].attempts = 0

\* the observers a pass of broadcast has still to send to
Pending(r) == { r.queue[i] : i \in 1..Len(r.queue) }

\* where the coroutine goes on when the broadcast it is in returns
AfterBroadcast(r) == IF r.bkind = "ticker" THEN "trade_check" ELSE "next_coin"

\* the step of task t starts a pass of broadcast that has somebody to send to
StartsPass(t) == loop[t].pc # "send" /\ loop'[t].pc = "send"

\* the step of task t is the return or the failure of the send to the first
\* pending observer
SendReturns(t) == loop[t].pc = "send" /\ loop'[t] # loop[t]

\* the observers whose send has failed in the pass once this step is taken
FailedNow(t, ok) ==
    IF ok THEN loop[t].to_remove ELSE loop[t].to_remove \cup { Head(loop[t].queue) }

\* C25: a pass of broadcast sends once to every observer subscribed when it
\* starts; a failing send does not end the pass, the observers after it are
\* still sent to and nobody is removed before the last send is over; then
\* exactly the observers whose send failed are removed, every other one stays
\* subscribed, and broadcast returns normally to its caller.
C25_FailedObserverRemoved ==
    [][\A t \in TaskIds :
          LET r == loop[t]
              n == loop'[t]
              u == r.key[1]
          IN /\ StartsPass(t) =>
                    /\ Pending(n) = subscribers[u]
                    /\ Len(n.queue) = Cardinality(subscribers[u])
                    /\ n.to_remove = {}
             /\ SendReturns(t) =>
                    \E ok \in BOOLEAN :
                        IF Len(r.queue) > 1
                        THEN /\ n.pc = "send"
                             /\ n.queue = Tail(r.queue)
                             /\ n.to_remove = FailedNow(t, ok)
                             /\ subscribers' = subscribers
                        ELSE /\ n.pc = AfterBroadcast(r)
                             /\ n.failed = FALSE
                             /\ subscribers'[u] = subscribers[u] \ FailedNow(t, ok)]_vars

\* the send to ws1 has failed, the pass has gone on to the last of three
\* observers, and all three are still subscribed
C25_Witness ==
    \E t \in TaskIds :
        /\ loop[t].pc = "send"
        /\ Len(loop[t].queue) = 1
        /\ loop[t].to_remove = { "ws1" }
        /\ Head(loop[t].queue) # "ws1"
        /\ subscribers[loop[t].key[1]] = CastObservers

\* C26: an observer that unsubscribes while a pass of broadcast is suspended
\* in a send does not make the pass fail: every send of the pass still returns
\* to the pass or to broadcast's caller, and the removal at the end of the
\* pass neither raises for an observer that is gone nor subscribes anybody.
\* A later pass sends only to observers subscribed when it starts.
C26_UnsubscribeDuringPass ==
    [][\A t \in TaskIds :
          LET r == loop[t]
              n == loop'[t]
              u == r.key[1]
          IN /\ SendReturns(t) =>
                    /\ n.pc \in { "send", AfterBroadcast(r) }
                    /\ n.failed = FALSE
                    /\ subscribers'[u] \subseteq subscribers[u]
             /\ (r.pc = "send" /\ n = r) => n.queue = r.queue
             /\ StartsPass(t) => Pending(n) \subseteq subscribers[u]]_vars

\* the pass is at its last send and an observer whose send failed earlier in
\* the pass has unsubscribed since
C26_Witness ==
    \E t \in TaskIds :
        /\ loop[t].pc = "send"
        /\ Len(loop[t].queue) = 1
        /\ \E ws \in loop[t].to_remove : ws \notin subscribers[loop[t].key[1]]
        /\ Head(loop[t].queue) \in subscribers[loop[t].key[1]]

\* the step of task t calls broadcast: the evaluation that finds an
\* opportunity, or the return of the write of the trade log
CallsBroadcast(t) ==
    \/ /\ loop[t].pc = "eval" /\ loop'[t] # loop[t]
       /\ HasOpportunity(Best(loop[t].results[loop[t].ci], loop[t].clients))
    \/ loop[t].pc = "persist" /\ loop'[t].persisted = loop[t].persisted + 1

\* C27: broadcast for a user with no subscribed observer returns at once
\* without raising: no send is started, nothing is kept of the message for an
\* observer that subscribes later, and the caller goes on.
C27_NoSubscriberNoSend ==
    [][\A t \in TaskIds :
          LET r == loop[t]
              n == loop'[t]
          IN (CallsBroadcast(t) /\ subscribers[r.key[1]] = {}) =>
                 /\ n.pc = (IF r.pc = "eval" THEN "trade_check" ELSE "next_coin")
                 /\ n.failed = FALSE
                 /\ n.queue = << >>
                 /\ n.to_remove = {}
                 /\ subscribers' = subscribers]_vars

\* the trade message has been broadcast to nobody and the coroutine has gone
\* on to the next coin
C27_Witness ==
    \E t \in TaskIds :
        /\ loop[t].pc = "next_coin"
        /\ loop[t].persisted = 1
        /\ loop[t].cycle = 1
        /\ subscribers[loop[t].key[1]] = {}

\* program points of the block of one coin with an opportunity, lines 173-238
CoinPcs == { "send", "trade_check", "buy", "sell", "persist" }

\* the step of task t appends the TradeRecord of the coin and cycle under way
PersistsRecord(t) ==
    LET r == loop[t]
        n == loop'[t]
    IN /\ r.pc = "persist"
       /\ Len(n.records) = Len(r.records) + 1
       /\ Last(n.records).coin = r.coins[r.ci]
       /\ Last(n.records).cycle = r.cycle
       /\ Last(n.records).status = r.status

\* the budget the trade under way leaves: line 224
BudgetDue(r) ==
    IF r.config.mode = "live" /\ r.status = "executed"
    THEN r.config.budget - r.trade_size_usd
    ELSE r.config.budget

\* C28: within one cycle and for one coin the ticker message is broadcast
\* first, then, if a trade is attempted, the buy order and the sell order are
\* placed, then the TradeRecord is persisted, then the budget is updated,
\* then the trade message is broadcast; while a trade message is being sent
\* the last persisted record is the one of the same coin and cycle.
C28_OrderOfEvents ==
    [][\A t \in TaskIds :
          LET r == loop[t]
              n == loop'[t]
          IN /\ (r.pc \in CoinPcs \cup {"eval"} /\ n.pc \in CoinPcs) =>
                    n.ci = r.ci /\ n.cycle = r.cycle
             /\ (n.pc = "send" /\ n.bkind = "ticker") =>
                    r.pc = "eval" \/ (r.pc = "send" /\ r.bkind = "ticker")
             /\ n.pc = "trade_check" =>
                    \/ r.pc \in { "trade_check", "eval" }
                    \/ r.pc = "send" /\ r.bkind = "ticker"
             /\ n.pc = "buy" => r.pc \in { "buy", "trade_check" }
             /\ n.pc = "sell" => r.pc \in { "sell", "buy" }
             /\ n.pc = "persist" => r.pc \in { "persist", "trade_check", "buy", "sell" }
             /\ Len(n.orders) > Len(r.orders) => r.pc \in { "trade_check", "buy" }
             /\ Len(n.records) > Len(r.records) => PersistsRecord(t)
             /\ (Alive(t) /\ Alive(t)' /\ n.config.budget # r.config.budget) =>
                    PersistsRecord(t)
             /\ SendsTrade(n) =>
                    \/ SendsTrade(r)
                    \/ PersistsRecord(t) /\ n.config.budget = BudgetDue(r)
             /\ SendsTrade(n) =>
                    /\ n.records # << >>
                    /\ Last(n.records).coin = n.coins[n.ci]
                    /\ Last(n.records).cycle = n.cycle
                    /\ n.best # NoBest]_vars

\* the trade message of the second coin of a cycle is being sent to an
\* observer: both orders were placed, the record of the coin is written and
\* the budget is down by the two trades of the cycle
C28_Witness ==
    \E t \in TaskIds :
        /\ SendsTrade(loop[t])
        /\ loop[t].ci = 2
        /\ Len(loop[t].orders) = 4
        /\ Len(loop[t].records) = 2
        /\ Last(loop[t].records).coin = "ETH"
        /\ Last(loop[t].records).status = "executed"
        /\ loop[t].config.budget = 0

\* the client named name answered its request for the coin with a ticker
\* whose price is price
ReturnedBy(r, tickers, name, price) ==
    \E i \in 1..Len(r.clients) :
        /\ r.clients[i] = name
        /\ tickers[i] # None
        /\ PriceOf(tickers[i][1]) = Some(price)

\* C29: the exchange named in the best buy and in the best sell is the one
\* whose client returned that price in this cycle, whichever requests failed,
\* and every live order goes to the client of the exchange named on its side
\* of the opportunity.
C29_NamesFollowClients ==
    [][\A t \in TaskIds :
          LET r == loop[t]
              n == loop'[t]
          IN /\ (r.pc = "eval" /\ n # r) =>
                    LET tickers == r.results[r.ci]
                        b == Best(tickers, r.clients)
                    IN /\ b.buy # None =>
                              ReturnedBy(r, tickers, b.buy[1].exchange, b.buy[1].price)
                       /\ b.sell # None =>
                              ReturnedBy(r, tickers, b.sell[1].exchange, b.sell[1].price)
                       /\ HasOpportunity(b) => n.best = b
             /\ Len(n.orders) > Len(r.orders) =>
                    LET o == Last(n.orders)
                        side == IF o.side = "buy" THEN r.best.buy[1] ELSE r.best.sell[1]
                    IN /\ n.orders = Append(r.orders, o)
                       /\ o.exchange = side.exchange
                       /\ ReturnedBy(r, r.results[r.ci], o.exchange, side.price)]_vars

\* the request to the first exchange failed: the best buy is the second
\* exchange at its price, the best sell the third at its price, and the buy
\* and the sell order have gone to them
C29_Witness ==
    \E t \in TaskIds :
        /\ loop[t].pc = "sell"
        /\ loop[t].clients = << "binance", "kraken", "okx" >>
        /\ loop[t].results[1][1] = None
        /\ loop[t].results[1][2] = Some(Ticker(Some(5), Some(10)))
        /\ loop[t].results[1][3] # None
        /\ loop[t].best = [buy |-> Some(Quote("kraken", 5)), sell |-> Some(Quote("okx", 20))]
        /\ loop[t].orders[1].exchange = "kraken"
        /\ loop[t].orders[2].exchange = "okx"

====
